---- MODULE Spec2Model ----
(***************************************************************************)
(* A model of the gee2 server: the query pipeline of server/routes.ts      *)
(* (extractParameters, generateResponse, generateVisualizationData and the *)
(* POST /api/queries and POST /api/locations handlers) over the in-memory  *)
(* record store of server/storage.ts (MemStorage).                         *)
(*                                                                         *)
(* Strings are sequences of one-character strings, so that the substring   *)
(* searches (String.includes), the case folding (toLowerCase) and the      *)
(* regular expression of the year detection are computed character by      *)
(* character.  A JavaScript object is a function whose DOMAIN is the set   *)
(* of the keys that are present: an absent field is a key outside DOMAIN.  *)
(***************************************************************************)
EXTENDS Integers, Sequences, FiniteSets, Bags, TLC

VARIABLES
    now,                    \* the calendar year new Date().getFullYear() returns
    pc,                     \* position of the direct call of a pipeline function
    callPrompt,             \* argument: prompt
    callParams,             \* argument / result: the ExtractedParameters record
    callLocationId,         \* argument: locationId
    retResponse,            \* result of generateResponse
    retViz,                 \* result of generateVisualizationData
    locations,              \* MemStorage.locations   : id -> Location
    queries,                \* MemStorage.queries     : id -> Query
    conversations,          \* MemStorage.conversations : id -> Conversation
    currentLocationId,      \* MemStorage.currentLocationId
    currentQueryId,         \* MemStorage.currentQueryId
    currentConversationId,  \* MemStorage.currentConversationId
    handlers,               \* the route handlers in flight (a bag)
    lastReply,              \* the last HTTP reply sent (status, body) and its request
    selectedLocation,       \* Home: useState<Location | null>(null)
    isAutoDetecting,        \* Home: useState(true)
    showLocationSelector,   \* Home: useState(false)
    detection,              \* Home: position of the page-load auto-detection
    selections,             \* LocationSelector: the selections in flight (a bag)
    messages,               \* ChatInterface: useState<Message[]>([])
    inputValue,             \* ChatInterface: useState("")
    isTyping,               \* ChatInterface: useState(false)
    hasStartedChat,         \* ChatInterface: useState(false)
    sent,                   \* ChatInterface: number of sendQueryMutation.mutate calls
    pending                 \* ChatInterface: the mutations in flight, number -> prompt

vars == <<now, pc, callPrompt, callParams, callLocationId, retResponse, retViz,
          locations, queries, conversations, currentLocationId, currentQueryId,
          currentConversationId, handlers, lastReply,
          selectedLocation, isAutoDetecting, showLocationSelector, detection,
          selections, messages, inputValue, isTyping, hasStartedChat, sent, pending>>

callVars == <<pc, callPrompt, callParams, callLocationId, retResponse, retViz>>
storeVars == <<locations, queries, conversations, currentLocationId,
               currentQueryId, currentConversationId>>
serverVars == <<handlers, lastReply>>
homeVars == <<selectedLocation, isAutoDetecting, showLocationSelector, detection,
              selections>>
chatVars == <<messages, inputValue, isTyping, hasStartedChat, sent, pending>>
clientVars == <<homeVars, chatVars>>

-----------------------------------------------------------------------------
(* Bounds of the model. *)

\* a prompt is the concatenation of at most MaxPieces pieces of Vocabulary
MaxPieces == 3

\* a dataTypes list given directly to generateResponse has at most MaxTags tags
MaxTags == 2

\* route handlers in flight at a time
MaxHandlers == 2

\* records the store is given per kind
MaxLocations == 2
MaxQueries == 2
MaxConversations == 1

\* the selections the LocationSelector has in flight at once
MaxSelections == 2

-----------------------------------------------------------------------------
(* Strings *)

EmptyObject == [k \in {} |-> 0]

\* obj[key] = value
SetField(obj, key, value) == (key :> value) @@ obj

Has(obj, key) == key \in DOMAIN obj

Digits == {"0", "1", "2", "3", "4", "5", "6", "7", "8", "9"}
DigitChars == <<"0", "1", "2", "3", "4", "5", "6", "7", "8", "9">>
WhiteSpace == {" ", "\t", "\n"}

\* the lower-case letter of each upper-case letter
UpperToLower ==
    [A |-> "a", B |-> "b", C |-> "c", D |-> "d", E |-> "e", F |-> "f", G |-> "g",
     H |-> "h", I |-> "i", J |-> "j", K |-> "k", L |-> "l", M |-> "m", N |-> "n",
     O |-> "o", P |-> "p", Q |-> "q", R |-> "r", S |-> "s", T |-> "t", U |-> "u",
     V |-> "v", W |-> "w", X |-> "x", Y |-> "y", Z |-> "z"]

\* String.prototype.toLowerCase, one character
ToLowerChar(c) == IF c \in DOMAIN UpperToLower THEN UpperToLower[c] ELSE c

\* String.prototype.toLowerCase
ToLowerCase(s) == [i \in 1..Len(s) |-> ToLowerChar(s[i])]

\* String.prototype.includes: w occurs in s at some position
Includes(s, w) ==
    \E i \in 1..(Len(s) - Len(w) + 1) : SubSeq(s, i, i + Len(w) - 1) = w

\* Number.prototype.toString of a non-negative integer
RECURSIVE NumberToString(_)
NumberToString(n) ==
    IF n < 10 THEN <<DigitChars[n + 1]>>
    ELSE Append(NumberToString(n \div 10), DigitChars[(n % 10) + 1])

\* the keywords of extractParameters
KwTemperature   == <<"t","e","m","p","e","r","a","t","u","r","e">>
KwRainfall      == <<"r","a","i","n","f","a","l","l">>
KwPrecipitation == <<"p","r","e","c","i","p","i","t","a","t","i","o","n">>
KwPopulation    == <<"p","o","p","u","l","a","t","i","o","n">>
KwDemographics  == <<"d","e","m","o","g","r","a","p","h","i","c","s">>
KwAverage       == <<"a","v","e","r","a","g","e">>
KwMonthly       == <<"m","o","n","t","h","l","y">>
KwYearly        == <<"y","e","a","r","l","y">>
KwAnnual        == <<"a","n","n","u","a","l">>

-----------------------------------------------------------------------------
(* The regular expression /(\d{4})\s*(?:to|-)?\s*(\d{4})?/ of String.match *)

\* \d{4} matches at position i
FourDigitsAt(s, i) ==
    /\ i >= 1
    /\ i + 3 <= Len(s)
    /\ \A k \in 0..3 : s[i + k] \in Digits

\* \s* from position i (greedy): the position after the white space
RECURSIVE SkipSpaces(_, _)
SkipSpaces(s, i) ==
    IF i <= Len(s) /\ s[i] \in WhiteSpace THEN SkipSpaces(s, i + 1) ELSE i

\* a slip: the regular expression without the word "to"
SkipSeparator_HyphenOnly(s, i) ==
    IF i <= Len(s) /\ s[i] = "-" THEN i + 1 ELSE i

\* (?:to|-)? from position i (greedy, "to" tried first): the position after it
SkipSeparator(s, i) ==
    IF i + 1 <= Len(s) /\ s[i] = "t" /\ s[i + 1] = "o" THEN i + 2
    ELSE IF i <= Len(s) /\ s[i] = "-" THEN i + 1
    ELSE i

\* prompt.match(regex): the empty object for null, else the groups that took part
\* (group 1 always, group 2 when the optional second \d{4} matched)
YearMatch(s) ==
    IF ~ \E i \in 1..Len(s) : FourDigitsAt(s, i)
    THEN EmptyObject
    ELSE LET i == CHOOSE p \in 1..Len(s) :
                    /\ FourDigitsAt(s, p)
                    /\ \A q \in 1..(p - 1) : ~ FourDigitsAt(s, q)
             j == SkipSpaces(s, SkipSeparator(s, SkipSpaces(s, i + 4)))
             g1 == SetField(EmptyObject, "g1", SubSeq(s, i, i + 3))
         IN  IF FourDigitsAt(s, j)
             THEN SetField(g1, "g2", SubSeq(s, j, j + 3))
             ELSE g1

-----------------------------------------------------------------------------
(* extractParameters(prompt), with the clock's year as read at the call *)

\* a slip: endYear defaults to the current year also when no year was found
ExtractYears_AlwaysEndYear(prompt, year) ==
    LET yearMatch == YearMatch(prompt)
    IN  SetField(
            IF Has(yearMatch, "g1")
            THEN SetField(EmptyObject, "startYear", yearMatch["g1"])
            ELSE EmptyObject,
            "endYear",
            IF Has(yearMatch, "g2") THEN yearMatch["g2"] ELSE NumberToString(year))

ExtractYears(prompt, year) ==
    LET yearMatch == YearMatch(prompt)
    IN  IF Has(yearMatch, "g1")
        THEN SetField(
                 SetField(EmptyObject, "startYear", yearMatch["g1"]),
                 "endYear",
                 IF Has(yearMatch, "g2") /\ yearMatch["g2"] # <<>>
                 THEN yearMatch["g2"]
                 ELSE NumberToString(year))
        ELSE EmptyObject

\* if (includes('temperature')) params.dataTypes = ['temperature']
CheckTemperature(params, lower) ==
    IF Includes(lower, KwTemperature)
    THEN SetField(params, "dataTypes", <<"temperature">>)
    ELSE params

\* a slip: rainfall overwrites the list like the other checks do
CheckRainfall_Overwrites(params, lower) ==
    IF Includes(lower, KwRainfall) \/ Includes(lower, KwPrecipitation)
    THEN SetField(params, "dataTypes", <<"rainfall">>)
    ELSE params

\* if (includes('rainfall') || includes('precipitation'))
\*   params.dataTypes = params.dataTypes ? [...params.dataTypes, 'rainfall'] : ['rainfall']
CheckRainfall(params, lower) ==
    IF Includes(lower, KwRainfall) \/ Includes(lower, KwPrecipitation)
    THEN SetField(params, "dataTypes",
                  IF Has(params, "dataTypes")
                  THEN Append(params["dataTypes"], "rainfall")
                  ELSE <<"rainfall">>)
    ELSE params

\* a slip: population appends to the list like rainfall does
CheckPopulation_Appends(params, lower) ==
    IF Includes(lower, KwPopulation)
    THEN SetField(params, "dataTypes",
                  IF Has(params, "dataTypes")
                  THEN Append(params["dataTypes"], "population")
                  ELSE <<"population">>)
    ELSE params

\* if (includes('population')) params.dataTypes = ['population']
CheckPopulation(params, lower) ==
    IF Includes(lower, KwPopulation)
    THEN SetField(params, "dataTypes", <<"population">>)
    ELSE params

\* if (includes('demographics')) params.dataTypes = ['demographics']
CheckDemographics(params, lower) ==
    IF Includes(lower, KwDemographics)
    THEN SetField(params, "dataTypes", <<"demographics">>)
    ELSE params

\* if (includes('average')) params.aggregation = 'average'
CheckAverage(params, lower) ==
    IF Includes(lower, KwAverage)
    THEN SetField(params, "aggregation", "average")
    ELSE params

\* if (includes('monthly')) params.timeframe = 'monthly'
CheckMonthly(params, lower) ==
    IF Includes(lower, KwMonthly)
    THEN SetField(params, "timeframe", "monthly")
    ELSE params

\* a slip: yearly is set only if no timeframe has been set
CheckYearly_KeepsMonthly(params, lower) ==
    IF (Includes(lower, KwYearly) \/ Includes(lower, KwAnnual)) /\ ~ Has(params, "timeframe")
    THEN SetField(params, "timeframe", "yearly")
    ELSE params

\* if (includes('yearly') || includes('annual')) params.timeframe = 'yearly'
CheckYearly(params, lower) ==
    IF Includes(lower, KwYearly) \/ Includes(lower, KwAnnual)
    THEN SetField(params, "timeframe", "yearly")
    ELSE params

extractParameters(prompt, year) ==
    LET lower == ToLowerCase(prompt)
        p0 == ExtractYears(prompt, year)
        p1 == CheckTemperature(p0, lower)
        p2 == CheckRainfall(p1, lower)
        p3 == CheckPopulation(p2, lower)
        p4 == CheckDemographics(p3, lower)
        p5 == CheckAverage(p4, lower)
        p6 == CheckMonthly(p5, lower)
    IN  CheckYearly(p6, lower)

-----------------------------------------------------------------------------
(* MemStorage reads *)

\* the value of an absent map entry or an absent field
Undefined == EmptyObject

\* MemStorage.getLocation: this.locations.get(id)
getLocation(id) == IF id \in DOMAIN locations THEN locations[id] ELSE Undefined

\* MemStorage.getQuery: this.queries.get(id)
getQuery(id) == IF id \in DOMAIN queries THEN queries[id] ELSE Undefined

\* Array.from(map.values()): the records in the order they were set, which is
\* the order of their ids (each record is set once, under the next number)
Values(map) ==
    [i \in 1..Cardinality(DOMAIN map) |->
        map[CHOOSE id \in DOMAIN map :
                Cardinality({other \in DOMAIN map : other <= id}) = i]]

\* a slip: the filter is missing
getQueriesByLocation_Unfiltered(locationId) == Values(queries)

\* MemStorage.getQueriesByLocation:
\* Array.from(this.queries.values()).filter(query => query.locationId === locationId)
getQueriesByLocation(locationId) ==
    SelectSeq(Values(queries), LAMBDA query : query.locationId = locationId)

-----------------------------------------------------------------------------
(* generateResponse(prompt, params, locationId), after its getLocation *)

\* Array.prototype.includes under optional chaining: params.dataTypes?.includes(tag)
DataTypesInclude(params, tag) ==
    /\ Has(params, "dataTypes")
    /\ \E i \in 1..Len(params["dataTypes"]) : params["dataTypes"][i] = tag

\* a string-valued field that is present and not the empty string
Truthy(params, key) == Has(params, key) /\ params[key] # <<>>

\* location?.name || "the selected location"
LocationName(location) ==
    IF Has(location, "name") /\ location["name"] # ""
    THEN location["name"]
    ELSE "the selected location"

FromText == <<" ", "f", "r", "o", "m", " ">>
ToText == <<" ", "t", "o", " ">>

\* a slip: the "to" part is missing
YearClause_FromOnly(params) ==
    IF Truthy(params, "startYear") THEN FromText \o params["startYear"] ELSE <<>>

\* ${params.startYear ? ` from ${params.startYear}` : ''}${params.endYear ? ` to ${params.endYear}` : ''}
YearClause(params) ==
    (IF Truthy(params, "startYear") THEN FromText \o params["startYear"] ELSE <<>>)
    \o (IF Truthy(params, "endYear") THEN ToText \o params["endYear"] ELSE <<>>)

\* The fragment returned, by its parts: the heading's literal text, the location
\* name interpolated after it, the year clause interpolated into the Weather
\* sentence and the prompt quoted in the Geographic (generic) template.
WeatherTemplate(locationName, params) ==
    [heading |-> "Weather Analysis for ", locationName |-> locationName,
     period |-> YearClause(params), quoted |-> <<>>]

DemographicsTemplate(locationName) ==
    [heading |-> "Demographics Analysis for ", locationName |-> locationName,
     period |-> <<>>, quoted |-> <<>>]

GenericTemplate(locationName, prompt) ==
    [heading |-> "Geographic Analysis for ", locationName |-> locationName,
     period |-> <<>>, quoted |-> prompt]

IsWeather(params) ==
    DataTypesInclude(params, "temperature") \/ DataTypesInclude(params, "rainfall")

IsDemographics(params) ==
    DataTypesInclude(params, "population") \/ DataTypesInclude(params, "demographics")

\* a slip: the two topic rules in the other order
generateResponse_DemographicsFirst(prompt, params, location) ==
    LET locationName == LocationName(location)
    IN  IF IsDemographics(params) THEN DemographicsTemplate(locationName)
        ELSE IF IsWeather(params) THEN WeatherTemplate(locationName, params)
        ELSE GenericTemplate(locationName, prompt)

generateResponse(prompt, params, location) ==
    LET locationName == LocationName(location)
    IN  IF IsWeather(params) THEN WeatherTemplate(locationName, params)
        ELSE IF IsDemographics(params) THEN DemographicsTemplate(locationName)
        ELSE GenericTemplate(locationName, prompt)

-----------------------------------------------------------------------------
(* generateVisualizationData(prompt, params) *)

Null == [null |-> TRUE]

MonthLabels == <<"Jan", "Feb", "Mar", "Apr", "May", "Jun",
                 "Jul", "Aug", "Sep", "Oct", "Nov", "Dec">>

\* degrees Fahrenheit
TemperatureData == <<52, 54, 57, 60, 63, 66, 67, 68, 69, 65, 58, 53>>

\* tenths of an inch: 4.5, 3.8, 3.2, 1.5, 0.7, 0.2, 0.1, 0.2, 0.4, 1.8, 3.1, 4.2
RainfallData == <<45, 38, 32, 15, 7, 2, 1, 2, 4, 18, 31, 42>>

TemperatureChart ==
    [type |-> "line",
     data |-> [labels |-> MonthLabels,
               datasets |-> << [label |-> "Average Temperature (F)",
                                data |-> TemperatureData,
                                borderColor |-> "rgb(16, 163, 127)",
                                backgroundColor |-> "rgba(16, 163, 127, 0.1)"] >>]]

RainfallChart ==
    [type |-> "bar",
     data |-> [labels |-> MonthLabels,
               datasets |-> << [label |-> "Rainfall (inches)",
                                data |-> RainfallData,
                                backgroundColor |-> "rgba(16, 163, 127, 0.8)"] >>]]

\* a slip: the rainfall rule is missing
generateVisualizationData_TemperatureOnly(prompt, params) ==
    IF DataTypesInclude(params, "temperature") THEN TemperatureChart ELSE Null

\* a slip: the two chart rules in the other order
generateVisualizationData_RainfallFirst(prompt, params) ==
    IF DataTypesInclude(params, "rainfall") THEN RainfallChart
    ELSE IF DataTypesInclude(params, "temperature") THEN TemperatureChart
    ELSE Null

generateVisualizationData(prompt, params) ==
    IF DataTypesInclude(params, "temperature") THEN TemperatureChart
    ELSE IF DataTypesInclude(params, "rainfall") THEN RainfallChart
    ELSE Null

-----------------------------------------------------------------------------
(* The inputs the checks draw from *)

RECURSIVE Flatten(_)
Flatten(pieces) ==
    IF pieces = <<>> THEN <<>> ELSE Head(pieces) \o Flatten(Tail(pieces))

Vocabulary ==
    { KwTemperature,
      <<"R","a","i","n","f","a","l","l">>,
      KwPrecipitation,
      KwPopulation,
      KwDemographics,
      KwAverage,
      KwMonthly,
      KwYearly,
      KwAnnual,
      <<"1","9","9","0">>,
      <<"2","0","2","0">>,
      <<"5">>,
      <<" ">>,
      <<"t","o">>,
      <<"-">>,
      <<"d","a","t","a">> }

Prompts ==
    { Flatten(pieces) : pieces \in UNION { [1..n -> Vocabulary] : n \in 0..MaxPieces } }

Years == {2026, 2027}

\* the year the server is started in
StartYear == CHOOSE y \in Years : \A z \in Years : y <= z

Tags == {"temperature", "rainfall", "population", "demographics"}

\* every object over the given optional fields and their values
RECURSIVE Objects(_, _)
Objects(keys, values) ==
    IF keys = {} THEN {EmptyObject}
    ELSE LET k == CHOOSE x \in keys : TRUE
             rest == Objects(keys \ {k}, values)
         IN  rest \cup { SetField(o, k, v) : o \in rest, v \in values[k] }

\* ExtractedParameters records, also ones extractParameters never builds
ParamRecords ==
    Objects({"startYear", "endYear", "dataTypes", "aggregation", "timeframe"},
            [startYear   |-> {<<"1","9","9","0">>},
             endYear     |-> {<<"2","0","2","0">>},
             dataTypes   |-> UNION { [1..n -> Tags] : n \in 0..MaxTags },
             aggregation |-> {"average"},
             timeframe   |-> {"monthly", "yearly"}])

LocationNames == {"San Francisco", ""}

InsertLocations ==
    { [name |-> n, latitude |-> "37.7749", longitude |-> "-122.4194", type |-> t] :
        n \in LocationNames, t \in {"manual"} }

\* the location bodies the server is sent: the mock geocoder's San Francisco
ServerLocations ==
    { [name |-> "San Francisco", latitude |-> "37.7749",
       longitude |-> "-122.4194", type |-> "manual"] }

\* MemStorage.createLocation's record: { ...insertLocation, id, createdAt: new Date() }
NewLocation(insertLocation, id, date) ==
    SetField(SetField(insertLocation, "id", id), "createdAt", date)

-----------------------------------------------------------------------------
(* Initial states *)

NotCalled == [notCalled |-> TRUE]

InitStore ==
    /\ locations = EmptyObject
    /\ queries = EmptyObject
    /\ conversations = EmptyObject
    /\ currentLocationId = 1
    /\ currentQueryId = 1
    /\ currentConversationId = 1

InitServer ==
    /\ handlers = EmptyBag
    /\ lastReply = [route |-> "", status |-> 0]

\* the page before its first effect has run, and a chat with nothing typed
InitHome ==
    /\ selectedLocation = Null
    /\ isAutoDetecting = TRUE
    /\ showLocationSelector = FALSE
    /\ detection = "mount"
    /\ selections = EmptyBag

InitChat ==
    /\ messages = <<>>
    /\ inputValue = <<>>
    /\ isTyping = FALSE
    /\ hasStartedChat = FALSE
    /\ sent = 0
    /\ pending = EmptyObject

InitClient == InitHome /\ InitChat

InitCall ==
    /\ pc = {}
    /\ callPrompt = <<>>
    /\ callParams = EmptyObject
    /\ callLocationId = 1
    /\ retResponse = NotCalled
    /\ retViz = NotCalled

\* the server after construction
Init ==
    /\ now = StartYear
    /\ InitStore
    /\ InitServer
    /\ InitClient
    /\ InitCall

\* extractParameters called directly on a prompt, and generateResponse on
\* what it returns, over a store that holds the location San Francisco (id 1)
InitExtract ==
    /\ now \in Years
    /\ locations = (1 :> NewLocation(CHOOSE loc \in ServerLocations : TRUE, 1, now))
    /\ currentLocationId = 2
    /\ queries = EmptyObject
    /\ conversations = EmptyObject
    /\ currentQueryId = 1
    /\ currentConversationId = 1
    /\ InitServer
    /\ InitClient
    /\ pc = {}
    /\ callPrompt \in Prompts
    /\ callParams = EmptyObject
    /\ callLocationId = 1
    /\ retResponse = NotCalled
    /\ retViz = NotCalled

\* generateResponse and generateVisualizationData called directly on a parameter
\* record, over a store that holds one location (id 1)
InitRespond ==
    /\ now \in Years
    /\ \E loc \in InsertLocations :
          locations = (1 :> NewLocation(loc, 1, now))
    /\ currentLocationId = 2
    /\ queries = EmptyObject
    /\ conversations = EmptyObject
    /\ currentQueryId = 1
    /\ currentConversationId = 1
    /\ InitServer
    /\ InitClient
    /\ pc = {}
    /\ callPrompt \in {<<>>, <<"d","a","t","a">>}
    /\ callParams \in ParamRecords
    /\ callLocationId \in {1, 2}
    /\ retResponse = NotCalled
    /\ retViz = NotCalled

-----------------------------------------------------------------------------
(* MemStorage writes *)

\* a slip: the map is started afresh before the record is set
createLocation_StartsAfresh(insertLocation) ==
    /\ currentLocationId' = currentLocationId + 1
    /\ locations' =
           SetField(EmptyObject, currentLocationId,
                    NewLocation(insertLocation, currentLocationId, now))
    /\ UNCHANGED <<queries, conversations, currentQueryId, currentConversationId>>

\* createLocation: const id = this.currentLocationId++; this.locations.set(id, location)
createLocation(insertLocation) ==
    /\ currentLocationId' = currentLocationId + 1
    /\ locations' =
           SetField(locations, currentLocationId,
                    NewLocation(insertLocation, currentLocationId, now))
    /\ UNCHANGED <<queries, conversations, currentQueryId, currentConversationId>>

\* a slip: const id = this.currentQueryId, the counter is not advanced
createQuery_CounterNotAdvanced(insertQuery) ==
    /\ currentQueryId' = currentQueryId
    /\ queries' =
           SetField(queries, currentQueryId,
                    SetField(SetField(insertQuery, "id", currentQueryId),
                             "createdAt", now))
    /\ UNCHANGED <<locations, conversations, currentLocationId, currentConversationId>>

\* createQuery: const id = this.currentQueryId++; this.queries.set(id, query)
createQuery(insertQuery) ==
    /\ currentQueryId' = currentQueryId + 1
    /\ queries' =
           SetField(queries, currentQueryId,
                    SetField(SetField(insertQuery, "id", currentQueryId),
                             "createdAt", now))
    /\ UNCHANGED <<locations, conversations, currentLocationId, currentConversationId>>

\* createConversation: const id = this.currentConversationId++;
\* this.conversations.set(id, conversation)
createConversation(insertConversation) ==
    /\ currentConversationId' = currentConversationId + 1
    /\ conversations' =
           SetField(conversations, currentConversationId,
                    SetField(SetField(insertConversation, "id", currentConversationId),
                             "createdAt", now))
    /\ UNCHANGED <<locations, queries, currentLocationId, currentQueryId>>

-----------------------------------------------------------------------------
(* Direct calls of the three pipeline functions *)

\* each of the three can be called again, on the same input
ExtractParameters ==
    /\ callParams' = extractParameters(callPrompt, now)
    /\ pc' = pc \cup {"extractParameters"}
    /\ UNCHANGED <<now, callPrompt, callLocationId, retResponse, retViz>>
    /\ UNCHANGED storeVars
    /\ UNCHANGED serverVars
    /\ UNCHANGED clientVars

GenerateResponse ==
    /\ retResponse' = generateResponse(callPrompt, callParams, getLocation(callLocationId))
    /\ pc' = pc \cup {"generateResponse"}
    /\ UNCHANGED <<now, callPrompt, callParams, callLocationId, retViz>>
    /\ UNCHANGED storeVars
    /\ UNCHANGED serverVars
    /\ UNCHANGED clientVars

GenerateVisualizationData ==
    /\ retViz' = generateVisualizationData(callPrompt, callParams)
    /\ pc' = pc \cup {"generateVisualizationData"}
    /\ UNCHANGED <<now, callPrompt, callParams, callLocationId, retResponse>>
    /\ UNCHANGED storeVars
    /\ UNCHANGED serverVars
    /\ UNCHANGED clientVars

\* generateResponse called on what extractParameters has returned
GenerateResponseOnExtracted ==
    /\ "extractParameters" \in pc
    /\ GenerateResponse

NextExtract ==
    \/ ExtractParameters
    \/ GenerateResponseOnExtracted

SpecExtract == InitExtract /\ [][NextExtract]_vars

\* a direct call of storage.createLocation between the calls
StoreLocation(insertLocation) ==
    /\ currentLocationId <= MaxLocations
    /\ createLocation(insertLocation)
    /\ UNCHANGED now
    /\ UNCHANGED serverVars
    /\ UNCHANGED callVars
    /\ UNCHANGED clientVars

\* a direct call of storage.createQuery with the results of the calls
StoreQuery ==
    /\ currentQueryId <= MaxQueries
    /\ retResponse # NotCalled /\ retViz # NotCalled
    /\ createQuery([locationId |-> callLocationId,
                    prompt |-> callPrompt,
                    extractedParams |-> callParams,
                    response |-> retResponse,
                    visualizationData |-> retViz])
    /\ UNCHANGED now
    /\ UNCHANGED serverVars
    /\ UNCHANGED callVars
    /\ UNCHANGED clientVars

NextRespond ==
    \/ GenerateResponse
    \/ GenerateVisualizationData
    \/ \E insertLocation \in InsertLocations : StoreLocation(insertLocation)
    \/ StoreQuery

SpecRespond == InitRespond /\ [][NextRespond]_vars

-----------------------------------------------------------------------------
(* JavaScript values of a request body *)

JsUndefined == [type |-> "undefined", str |-> <<>>, num |-> 0]
JsString(chars) == [type |-> "string", str |-> chars, num |-> 0]
JsNumber(n) == [type |-> "number", str |-> <<>>, num |-> n]

\* a slip: only undefined and the empty string are taken as missing
Falsy_ZeroPasses(value) ==
    \/ value.type = "undefined"
    \/ value.type = "string" /\ value.str = <<>>

\* !value: undefined, the empty string and 0 are falsy
Falsy(value) ==
    \/ value.type = "undefined"
    \/ value.type = "string" /\ value.str = <<>>
    \/ value.type = "number" /\ value.num = 0

\* this.locations.get(key) for a key of any type: only a number can be a key
\* the store has set
LookupLocation(key) ==
    IF key.type = "number" THEN getLocation(key.num) ELSE Undefined

\* insertLocationSchema.parse(req.body) succeeds: name and type are required
ValidLocation(body) == Has(body, "name") /\ Has(body, "type")

\* insertQuerySchema.parse(queryData) succeeds: locationId is an integer and
\* prompt is a string (the other three columns are nullable)
ValidQuery(prompt, locationId) ==
    prompt.type = "string" /\ locationId.type = "number"

PromptBoth == KwTemperature \o <<" ">> \o <<"R","a","i","n","f","a","l","l">>
PromptBothAndPopulation == KwTemperature \o KwRainfall \o KwPopulation
PromptOther == <<"d","a","t","a">>

\* the request bodies { prompt, locationId } sent to POST /api/queries
QueryBodies ==
    { [prompt |-> JsString(PromptBoth), locationId |-> JsNumber(1)],
      [prompt |-> JsString(PromptBothAndPopulation), locationId |-> JsNumber(2)],
      [prompt |-> JsString(PromptOther), locationId |-> JsNumber(1)],
      [prompt |-> JsString(PromptOther), locationId |-> JsString(<<"1">>)],
      [prompt |-> JsString(PromptOther), locationId |-> JsNumber(0)],
      [prompt |-> JsString(<<>>), locationId |-> JsNumber(1)],
      [prompt |-> JsUndefined, locationId |-> JsNumber(1)],
      [prompt |-> JsString(PromptOther), locationId |-> JsUndefined],
      [prompt |-> JsNumber(5), locationId |-> JsNumber(1)] }

\* the request bodies sent to POST /api/queries next to the GET requests
ReadBodies ==
    { [prompt |-> JsString(PromptBoth), locationId |-> JsNumber(1)],
      [prompt |-> JsString(PromptOther), locationId |-> JsNumber(1)],
      [prompt |-> JsString(PromptOther), locationId |-> JsNumber(2)],
      [prompt |-> JsString(PromptOther), locationId |-> JsString(<<"1">>)] }

\* the :id of the requests sent to GET /api/locations/:id/queries
LocationIds == {1, 2}

LocationBodies == ServerLocations \cup { [latitude |-> "37.7749"] }

Sessions == {"k3j9x0q2a"}

-----------------------------------------------------------------------------------------------------------------------------------------------------
(* The route handlers.  A handler runs without interruption up to an await,  *)
(* where it gives way to the other handlers, and goes on in a later step.    *)
(* handlers is the bag of the handlers that wait at an await, each with its  *)
(* position and its local variables.                                         *)

Waiting(at) == { handler \in BagToSet(handlers) : handler.pc = at }

Room == BagCardinality(handlers) < MaxHandlers

Suspend(handler) == handlers' = handlers (+) SetToBag({handler})

Resume(handler, next) ==
    handlers' = (handlers (-) SetToBag({handler})) (+) SetToBag({next})

Finish(handler) == handlers' = handlers (-) SetToBag({handler})

\* the number of handlers in flight that have not yet reached createQuery
InFlight ==
    BagCardinality([handler \in Waiting("await getLocation")
                                \cup Waiting("await generateResponse")
                        |-> handlers[handler]])

\* the calls of a POST /api/queries handler that gets as far as the parse
PipelineCalls == <<"extractParameters", "generateResponse", "generateVisualizationData">>

\* the last answer sent: the route, the request it answers, the status and the
\* body, and the pipeline functions the handler has called before answering
Reply(route, request, called, status, body) ==
    lastReply' = [route |-> route, request |-> request, called |-> called,
                  status |-> status, body |-> body]

\* POST /api/locations up to its await: parse, then createLocation
PostLocations(body) ==
    /\ Room
    /\ IF ValidLocation(body)
       THEN /\ currentLocationId <= MaxLocations
            /\ createLocation(body)
            /\ Suspend([pc |-> "await createLocation", request |-> body,
                        location |-> locations'[currentLocationId]])
            /\ UNCHANGED lastReply
       ELSE /\ Reply("POST /api/locations", body, <<>>,
                       400, [error |-> "Invalid location data"])
            /\ UNCHANGED handlers
            /\ UNCHANGED storeVars
    /\ UNCHANGED now
    /\ UNCHANGED callVars
    /\ UNCHANGED clientVars

\* POST /api/locations after its await: res.json(location)
PostLocationsReply(handler) ==
    /\ handler.pc = "await createLocation"
    /\ Reply("POST /api/locations", handler.request, <<>>, 200, handler.location)
    /\ Finish(handler)
    /\ UNCHANGED now
    /\ UNCHANGED storeVars
    /\ UNCHANGED callVars
    /\ UNCHANGED clientVars

\* POST /api/queries up to the first await: the required check,
\* extractParameters, and generateResponse up to its await of getLocation
PostQueries(prompt, locationId) ==
    /\ Room
    /\ Cardinality(DOMAIN queries) + InFlight < MaxQueries
    /\ LET body == [prompt |-> prompt, locationId |-> locationId]
       IN  IF Falsy(prompt) \/ Falsy(locationId)
           THEN /\ Reply("POST /api/queries", body, <<>>,
                        400, [error |-> "Prompt and locationId are required"])
                /\ UNCHANGED handlers
           ELSE IF prompt.type # "string"
           THEN \* extractParameters throws, prompt.match is not a function: caught
                /\ Reply("POST /api/queries", body, <<"extractParameters">>,
                         500, [error |-> "Failed to process query"])
                /\ UNCHANGED handlers
           ELSE /\ Suspend([pc |-> "await getLocation",
                            prompt |-> prompt,
                            locationId |-> locationId,
                            extractedParams |-> extractParameters(prompt.str, now),
                            location |-> LookupLocation(locationId)])
                /\ UNCHANGED lastReply
    /\ UNCHANGED now
    /\ UNCHANGED storeVars
    /\ UNCHANGED callVars
    /\ UNCHANGED clientVars

\* generateResponse after its await of getLocation: the template is returned
GenerateResponseReturn(handler) ==
    /\ handler.pc = "await getLocation"
    /\ Resume(handler,
              [pc |-> "await generateResponse",
               prompt |-> handler.prompt,
               locationId |-> handler.locationId,
               extractedParams |-> handler.extractedParams,
               response |-> generateResponse(handler.prompt.str,
                                             handler.extractedParams,
                                             handler.location)])
    /\ UNCHANGED <<now, lastReply>>
    /\ UNCHANGED storeVars
    /\ UNCHANGED callVars
    /\ UNCHANGED clientVars

\* a slip: the visualization is built from an empty parameter record
QueryData_EmptyParams(handler) ==
    [locationId |-> handler.locationId.num,
     prompt |-> handler.prompt.str,
     extractedParams |-> handler.extractedParams,
     response |-> handler.response,
     visualizationData |-> generateVisualizationData(handler.prompt.str, EmptyObject)]

\* the { locationId, prompt, extractedParams, response, visualizationData } of
\* a handler whose response has been generated
QueryData(handler) ==
    [locationId |-> handler.locationId.num,
     prompt |-> handler.prompt.str,
     extractedParams |-> handler.extractedParams,
     response |-> handler.response,
     visualizationData |->
         generateVisualizationData(handler.prompt.str, handler.extractedParams)]

\* a slip: an id is drawn before the parse, so a failed parse uses one up
PostQueriesStore_DrawsIdFirst(handler) ==
    /\ handler.pc = "await generateResponse"
    /\ LET request == [prompt |-> handler.prompt, locationId |-> handler.locationId]
       IN  IF ValidQuery(handler.prompt, handler.locationId)
           THEN /\ createQuery(QueryData(handler))
                /\ Resume(handler,
                          [pc |-> "await createQuery", request |-> request,
                           query |-> queries'[currentQueryId]])
                /\ UNCHANGED lastReply
           ELSE /\ Reply("POST /api/queries", request, PipelineCalls,
                         500, [error |-> "Failed to process query"])
                /\ Finish(handler)
                /\ currentQueryId' = currentQueryId + 1
                /\ UNCHANGED <<locations, queries, conversations,
                               currentLocationId, currentConversationId>>
    /\ UNCHANGED now
    /\ UNCHANGED callVars
    /\ UNCHANGED clientVars

\* POST /api/queries after generateResponse: generateVisualizationData,
\* insertQuerySchema.parse and createQuery up to its await
PostQueriesStore(handler) ==
    /\ handler.pc = "await generateResponse"
    /\ LET request == [prompt |-> handler.prompt, locationId |-> handler.locationId]
       IN  IF ValidQuery(handler.prompt, handler.locationId)
           THEN /\ createQuery(QueryData(handler))
                /\ Resume(handler,
                          [pc |-> "await createQuery", request |-> request,
                           query |-> queries'[currentQueryId]])
                /\ UNCHANGED lastReply
           ELSE /\ Reply("POST /api/queries", request, PipelineCalls,
                         500, [error |-> "Failed to process query"])
                /\ Finish(handler)
                /\ UNCHANGED storeVars
    /\ UNCHANGED now
    /\ UNCHANGED callVars
    /\ UNCHANGED clientVars

\* POST /api/queries after createQuery: res.json(query)
PostQueriesReply(handler) ==
    /\ handler.pc = "await createQuery"
    /\ Reply("POST /api/queries", handler.request, PipelineCalls, 200, handler.query)
    /\ Finish(handler)
    /\ UNCHANGED now
    /\ UNCHANGED storeVars
    /\ UNCHANGED callVars
    /\ UNCHANGED clientVars

\* GET /api/locations/:id/queries up to its await: parseInt, then
\* getQueriesByLocation
GetQueries(id) ==
    /\ Room
    /\ Suspend([pc |-> "await getQueriesByLocation", locationId |-> id,
                queries |-> getQueriesByLocation(id)])
    /\ UNCHANGED <<now, lastReply>>
    /\ UNCHANGED storeVars
    /\ UNCHANGED callVars
    /\ UNCHANGED clientVars

\* GET /api/locations/:id/queries after its await: res.json(queries)
GetQueriesReply(handler) ==
    /\ handler.pc = "await getQueriesByLocation"
    /\ Reply("GET /api/locations/:id/queries", [id |-> handler.locationId], <<>>,
             200, handler.queries)
    /\ Finish(handler)
    /\ UNCHANGED now
    /\ UNCHANGED storeVars
    /\ UNCHANGED callVars
    /\ UNCHANGED clientVars

\* a direct call of storage.createConversation (no route calls it)
CreateConversation(locationId, sessionId) ==
    /\ currentConversationId <= MaxConversations
    /\ createConversation([locationId |-> locationId, sessionId |-> sessionId])
    /\ UNCHANGED now
    /\ UNCHANGED serverVars
    /\ UNCHANGED callVars
    /\ UNCHANGED clientVars

Next ==
    \/ \E body \in LocationBodies : PostLocations(body)
    \/ \E handler \in BagToSet(handlers) : PostLocationsReply(handler)
    \/ \E body \in QueryBodies : PostQueries(body.prompt, body.locationId)
    \/ \E handler \in BagToSet(handlers) : GenerateResponseReturn(handler)
    \/ \E handler \in BagToSet(handlers) : PostQueriesStore(handler)
    \/ \E handler \in BagToSet(handlers) : PostQueriesReply(handler)
    \/ \E sessionId \in Sessions : CreateConversation(1, sessionId)

Spec == Init /\ [][Next]_vars

\* the server answering POST /api/queries and GET /api/locations/:id/queries
NextRead ==
    \/ \E body \in ReadBodies : PostQueries(body.prompt, body.locationId)
    \/ \E handler \in BagToSet(handlers) : GenerateResponseReturn(handler)
    \/ \E handler \in BagToSet(handlers) : PostQueriesStore(handler)
    \/ \E handler \in BagToSet(handlers) : PostQueriesReply(handler)
    \/ \E id \in LocationIds : GetQueries(id)
    \/ \E handler \in BagToSet(handlers) : GetQueriesReply(handler)

SpecRead == Init /\ [][NextRead]_vars

-----------------------------------------------------------------------------
(* The Home page (home.tsx) with its LocationSelector.  A step is one event   *)
(* handler or one callback; the state updates it makes are rendered together. *)
(* A POST /api/locations the page sends is answered in one step: the server   *)
(* stores the location and the mutation's onSuccess runs, or the request      *)
(* fails and onError runs.                                                    *)

\* the body the page-load detection posts: type "auto"
AutoLocation ==
    [name |-> "Location (37.7749, -122.4194)", latitude |-> "37.7749",
     longitude |-> "-122.4194", type |-> "auto"]

\* the ways of the selector: handleAutoDetect, handleMapSelection, handleManualSubmit
SelectorWays == {"auto", "map", "manual"}

\* the body a selection posts
SelectorLocation(way) ==
    [name |-> IF way = "auto" THEN "Location (37.7749, -122.4194)" ELSE "San Francisco",
     latitude |-> "37.7749", longitude |-> "-122.4194", type |-> way]

\* what Home renders: the detecting screen alone while isAutoDetecting, else
\* the selector if showLocationSelector, and the chat if a location is selected
\* and the selector is not shown
Shown ==
    IF isAutoDetecting THEN {"detecting"}
    ELSE (IF showLocationSelector THEN {"selector"} ELSE {})
         \cup (IF selectedLocation # Null /\ ~ showLocationSelector
               THEN {"chat"} ELSE {})

\* useEffect on page load: getCurrentPosition is started if the browser has
\* geolocation, else the selector is opened
HomeEffect(hasGeolocation) ==
    /\ detection = "mount"
    /\ IF hasGeolocation
       THEN /\ detection' = "getCurrentPosition"
            /\ UNCHANGED <<selectedLocation, isAutoDetecting, showLocationSelector>>
       ELSE /\ detection' = "settled"
            /\ isAutoDetecting' = FALSE
            /\ showLocationSelector' = TRUE
            /\ UNCHANGED selectedLocation
    /\ UNCHANGED <<now, selections>>
    /\ UNCHANGED <<storeVars, serverVars, callVars, chatVars>>

\* the position callback of the page-load detection: createLocationMutation.mutate
HomePosition ==
    /\ detection = "getCurrentPosition"
    /\ detection' = "createLocation"
    /\ UNCHANGED <<now, selectedLocation, isAutoDetecting, showLocationSelector, selections>>
    /\ UNCHANGED <<storeVars, serverVars, callVars, chatVars>>

\* the error callback of the page-load detection (denied, unavailable, timeout)
HomePositionError ==
    /\ detection = "getCurrentPosition"
    /\ detection' = "settled"
    /\ isAutoDetecting' = FALSE
    /\ showLocationSelector' = TRUE
    /\ UNCHANGED <<now, selectedLocation, selections>>
    /\ UNCHANGED <<storeVars, serverVars, callVars, chatVars>>

\* Home's createLocationMutation succeeds: the server stores the location,
\* onSuccess sets selectedLocation and ends the detecting screen
HomeCreateSuccess ==
    /\ detection = "createLocation"
    /\ currentLocationId <= MaxLocations
    /\ createLocation(AutoLocation)
    /\ detection' = "settled"
    /\ selectedLocation' = locations'[currentLocationId]
    /\ isAutoDetecting' = FALSE
    /\ UNCHANGED <<now, showLocationSelector, selections>>
    /\ UNCHANGED <<serverVars, callVars, chatVars>>

\* a slip: onError ends the detecting screen without opening the selector
HomeCreateError_SelectorNotOpened ==
    /\ detection = "createLocation"
    /\ detection' = "settled"
    /\ isAutoDetecting' = FALSE
    /\ UNCHANGED <<now, selectedLocation, showLocationSelector, selections>>
    /\ UNCHANGED <<storeVars, serverVars, callVars, chatVars>>

\* Home's createLocationMutation fails: onError opens the selector
HomeCreateError ==
    /\ detection = "createLocation"
    /\ detection' = "settled"
    /\ isAutoDetecting' = FALSE
    /\ showLocationSelector' = TRUE
    /\ UNCHANGED <<now, selectedLocation, selections>>
    /\ UNCHANGED <<storeVars, serverVars, callVars, chatVars>>

\* the button "Skip and choose manually" of the detecting screen (the effect
\* has run by the time the page takes a click)
Skip ==
    /\ detection # "mount"
    /\ "detecting" \in Shown
    /\ isAutoDetecting' = FALSE
    /\ showLocationSelector' = TRUE
    /\ UNCHANGED <<now, selectedLocation, detection, selections>>
    /\ UNCHANGED <<storeVars, serverVars, callVars, chatVars>>

\* handleChangeLocation, from the chat's Change Location button
HandleChangeLocation ==
    /\ "chat" \in Shown
    /\ showLocationSelector' = TRUE
    /\ UNCHANGED <<now, selectedLocation, isAutoDetecting, detection, selections>>
    /\ UNCHANGED <<storeVars, serverVars, callVars, chatVars>>

\* handleLocationSelected(location)
HandleLocationSelected(location) ==
    /\ selectedLocation' = location
    /\ showLocationSelector' = FALSE

\* a choice in the selector: the map posts the location at once, the manual
\* entry first asks /api/geocode, the auto-detect first asks the browser
SelectorChoose(way) ==
    /\ "selector" \in Shown
    /\ BagCardinality(selections) < MaxSelections
    /\ selections' = selections (+) SetToBag({
           [way |-> way,
            stage |-> IF way = "map" THEN "createLocation" ELSE "resolve"]})
    /\ UNCHANGED <<now, selectedLocation, isAutoDetecting, showLocationSelector, detection>>
    /\ UNCHANGED <<storeVars, serverVars, callVars, chatVars>>

\* geocodeMutation.onSuccess or the position callback of handleAutoDetect:
\* createLocationMutation.mutate
SelectorResolved(selection) ==
    /\ selection.stage = "resolve"
    /\ selections' = (selections (-) SetToBag({selection}))
                     (+) SetToBag({[way |-> selection.way, stage |-> "createLocation"]})
    /\ UNCHANGED <<now, selectedLocation, isAutoDetecting, showLocationSelector, detection>>
    /\ UNCHANGED <<storeVars, serverVars, callVars, chatVars>>

\* the geocode request or the browser's detection fails, or the selector's
\* createLocationMutation does (onError): a toast at most, the page stays
SelectorFailed(selection) ==
    /\ selections' = selections (-) SetToBag({selection})
    /\ UNCHANGED <<now, selectedLocation, isAutoDetecting, showLocationSelector, detection>>
    /\ UNCHANGED <<storeVars, serverVars, callVars, chatVars>>

\* the selector's createLocationMutation succeeds: the server stores the
\* location, onSuccess hands it to Home's handleLocationSelected
SelectorCreateSuccess(selection) ==
    /\ selection.stage = "createLocation"
    /\ currentLocationId <= MaxLocations
    /\ createLocation(SelectorLocation(selection.way))
    /\ selections' = selections (-) SetToBag({selection})
    /\ HandleLocationSelected(locations'[currentLocationId])
    /\ UNCHANGED <<now, isAutoDetecting, detection>>
    /\ UNCHANGED <<serverVars, callVars, chatVars>>

NextHome ==
    \/ \E hasGeolocation \in BOOLEAN : HomeEffect(hasGeolocation)
    \/ HomePosition
    \/ HomePositionError
    \/ HomeCreateSuccess
    \/ HomeCreateError
    \/ Skip
    \/ HandleChangeLocation
    \/ \E way \in SelectorWays : SelectorChoose(way)
    \/ \E selection \in BagToSet(selections) : SelectorResolved(selection)
    \/ \E selection \in BagToSet(selections) : SelectorFailed(selection)
    \/ \E selection \in BagToSet(selections) : SelectorCreateSuccess(selection)

SpecHome == Init /\ [][NextHome]_vars

-----------------------------------------------------------------------------
(* The chat (chat-interface.tsx), shown by Home for the selected location.    *)
(* A POST /api/queries the chat sends is answered in one step: the server     *)
(* runs the pipeline and stores the query and onSuccess runs, or the request  *)
(* fails and onError runs.                                                    *)

\* String.prototype.trim
RECURSIVE Trim(_)
Trim(s) ==
    IF s = <<>> THEN s
    ELSE IF Head(s) \in WhiteSpace THEN Trim(Tail(s))
    ELSE IF s[Len(s)] \in WhiteSpace THEN Trim(SubSeq(s, 1, Len(s) - 1))
    ELSE s

\* the object without the key
Without(obj, key) == [k \in DOMAIN obj \ {key} |-> obj[k]]

\* a sentence of suggestion-tags.tsx
TagSentences == { <<"W","h","a","t"," ","a","r","e"," ","t","h","e"," ","d","e","m","o","g","r","a","p","h","i","c"," ","t","r","e","n","d","s","?">> }

\* the texts the user leaves in the textarea
ChatInputs == { PromptBoth \o <<" ">>, PromptOther, <<" ">> }

\* Home shows the chat for location 1 (San Francisco), created through the selector
InitChatShown ==
    /\ now = StartYear
    /\ locations = (1 :> NewLocation(SelectorLocation("manual"), 1, now))
    /\ currentLocationId = 2
    /\ queries = EmptyObject
    /\ conversations = EmptyObject
    /\ currentQueryId = 1
    /\ currentConversationId = 1
    /\ InitServer
    /\ InitCall
    /\ selectedLocation = locations[1]
    /\ isAutoDetecting = FALSE
    /\ showLocationSelector = FALSE
    /\ detection = "settled"
    /\ selections = EmptyBag
    /\ InitChat

\* sendQueryMutation.isPending: the mutation of the last mutate call is in flight
IsPending == sent \in DOMAIN pending

\* addMessage(content, sender): setMessages(prev => [...prev, newMessage])
AddMessage(content, sender) ==
    messages' = Append(messages, [content |-> content, sender |-> sender])

\* the textarea's onChange: setInputValue(e.target.value)
ChangeInput(text) ==
    /\ "chat" \in Shown
    /\ inputValue' = text
    /\ UNCHANGED <<messages, isTyping, hasStartedChat, sent, pending>>
    /\ UNCHANGED <<now, storeVars, serverVars, callVars, homeVars>>

\* handleTagClick(text): setInputValue(text)
HandleTagClick(text) ==
    /\ "chat" \in Shown
    /\ inputValue' = text
    /\ UNCHANGED <<messages, isTyping, hasStartedChat, sent, pending>>
    /\ UNCHANGED <<now, storeVars, serverVars, callVars, homeVars>>

\* handleSend
HandleSend ==
    LET message == Trim(inputValue)
    IN  IF message = <<>>
        THEN UNCHANGED chatVars
        ELSE /\ sent < MaxQueries
             /\ hasStartedChat' = TRUE
             /\ AddMessage(message, "user")
             /\ inputValue' = <<>>
             /\ isTyping' = TRUE
             /\ sent' = sent + 1
             /\ pending' = SetField(pending, sent + 1, message)

\* a click on the send button, which is disabled while
\* !inputValue.trim() || sendQueryMutation.isPending
ClickSend ==
    /\ "chat" \in Shown
    /\ Trim(inputValue) # <<>> /\ ~ IsPending
    /\ HandleSend
    /\ UNCHANGED <<now, storeVars, serverVars, callVars, homeVars>>

\* handleKeyPress with Enter (no Shift) in the textarea
PressEnter ==
    /\ "chat" \in Shown
    /\ HandleSend
    /\ UNCHANGED <<now, storeVars, serverVars, callVars, homeVars>>

\* the Query the server stores and answers for the prompt
ServedQuery(prompt, locationId) ==
    LET extractedParams == extractParameters(prompt, now)
    IN  QueryData([prompt |-> JsString(prompt),
                   locationId |-> JsNumber(locationId),
                   extractedParams |-> extractedParams,
                   response |-> generateResponse(prompt, extractedParams,
                                                 getLocation(locationId))])

\* sendQueryMutation succeeds: onSuccess ends the typing indicator and adds
\* the response as the assistant's message
SendQuerySuccess(n) ==
    /\ n \in DOMAIN pending
    /\ createQuery(ServedQuery(pending[n], selectedLocation.id))
    /\ isTyping' = FALSE
    /\ AddMessage(queries'[currentQueryId].response, "assistant")
    /\ pending' = Without(pending, n)
    /\ UNCHANGED <<inputValue, hasStartedChat, sent>>
    /\ UNCHANGED <<now, serverVars, callVars, homeVars>>

\* sendQueryMutation fails: onError ends the typing indicator
SendQueryError(n) ==
    /\ n \in DOMAIN pending
    /\ isTyping' = FALSE
    /\ pending' = Without(pending, n)
    /\ UNCHANGED <<messages, inputValue, hasStartedChat, sent>>
    /\ UNCHANGED <<now, storeVars, serverVars, callVars, homeVars>>

NextChat ==
    \/ \E text \in ChatInputs : ChangeInput(text)
    \/ \E text \in TagSentences : HandleTagClick(text)
    \/ ClickSend
    \/ PressEnter
    \/ \E n \in 1..MaxQueries : SendQuerySuccess(n)
    \/ \E n \in 1..MaxQueries : SendQueryError(n)

SpecChat == InitChatShown /\ [][NextChat]_vars

-----------------------------------------------------------------------------
(* Properties of extractParameters (SpecExtract) *)

Extracted == "extractParameters" \in pc

\* the keyword occurs in the text, whatever the case of the text's letters
OccursIn(text, kw) ==
    LET folded == [i \in 1..Len(text) |-> ToLowerChar(text[i])]
    IN  \E i \in 1..(Len(text) - Len(kw) + 1) :
            \A k \in 1..Len(kw) : folded[i + k - 1] = kw[k]

Occurs(kw) == OccursIn(callPrompt, kw)

OccursTemperature == Occurs(KwTemperature)
OccursRainfall == Occurs(KwRainfall) \/ Occurs(KwPrecipitation)
OccursPopulation == Occurs(KwPopulation)
OccursDemographics == Occurs(KwDemographics)

DataTypesIs(list) == Has(callParams, "dataTypes") /\ callParams["dataTypes"] = list

\* C1: the dataTypes field extractParameters returns is decided by which topic
\* keywords occur in the prompt: demographics wins, then population, then the
\* weather tags (both, in the order temperature, rainfall, when both occur), and
\* the field is absent when no topic keyword occurs.
C1_DataTypesByKeywords ==
    Extracted =>
        IF OccursDemographics THEN DataTypesIs(<<"demographics">>)
        ELSE IF OccursPopulation THEN DataTypesIs(<<"population">>)
        ELSE IF OccursTemperature /\ OccursRainfall
             THEN DataTypesIs(<<"temperature", "rainfall">>)
        ELSE IF OccursTemperature THEN DataTypesIs(<<"temperature">>)
        ELSE IF OccursRainfall THEN DataTypesIs(<<"rainfall">>)
        ELSE ~ Has(callParams, "dataTypes")

\* C1 witness: a prompt with temperature, rainfall and population, where only
\* population is returned
C1_Witness ==
    /\ Extracted
    /\ OccursTemperature /\ OccursRainfall /\ OccursPopulation
    /\ DataTypesIs(<<"population">>)

BothWeatherOnly ==
    /\ Extracted
    /\ Occurs(KwTemperature) /\ Occurs(KwRainfall)
    /\ ~ Occurs(KwPopulation) /\ ~ Occurs(KwDemographics)

\* C2 as stated: a prompt with "temperature" and "rainfall" (and neither
\* "population" nor "demographics") yields dataTypes = ["rainfall"].
C2_Original == BothWeatherOnly => DataTypesIs(<<"rainfall">>)

\* C2 as amended: such a prompt yields dataTypes = ["temperature", "rainfall"]:
\* the rainfall check appends to the list the temperature check set.
C2_BothWeatherTags ==
    BothWeatherOnly =>
        /\ Has(callParams, "dataTypes")
        /\ Len(callParams["dataTypes"]) = 2
        /\ callParams["dataTypes"][1] = "temperature"
        /\ callParams["dataTypes"][2] = "rainfall"

\* C2 witness: the prompt "temperature" + " " + "Rainfall" has been extracted
C2_Witness ==
    /\ BothWeatherOnly
    /\ Len(callPrompt) = Len(KwTemperature) + 1 + Len(KwRainfall)
    /\ callParams["dataTypes"] = <<"temperature", "rainfall">>

\* four digits in a row somewhere in the prompt
HasFourDigits ==
    \E i \in 1..(Len(callPrompt) - 3) :
        \A k \in 0..3 : callPrompt[i + k] \in Digits

\* C3: a field is present exactly when its trigger occurs in the prompt; a
\* dataTypes list is never empty; the empty prompt gives the empty record.
C3_FieldsPresentIffTriggered ==
    Extracted =>
        /\ DOMAIN callParams \subseteq
               {"startYear", "endYear", "dataTypes", "aggregation", "timeframe"}
        /\ Has(callParams, "startYear") <=> HasFourDigits
        /\ Has(callParams, "endYear") <=> HasFourDigits
        /\ Has(callParams, "dataTypes") <=>
               (OccursTemperature \/ OccursRainfall \/ OccursPopulation \/ OccursDemographics)
        /\ Has(callParams, "dataTypes") => Len(callParams["dataTypes"]) >= 1
        /\ Has(callParams, "aggregation") <=> Occurs(KwAverage)
        /\ Has(callParams, "timeframe") <=>
               (Occurs(KwMonthly) \/ Occurs(KwYearly) \/ Occurs(KwAnnual))
        /\ callPrompt = <<>> => callParams = EmptyObject

\* C3 witness: a prompt with digits, but fewer than four in a row, and no keyword
\* gives the empty record
C3_Witness ==
    /\ Extracted
    /\ \E i \in 1..Len(callPrompt) : callPrompt[i] \in Digits
    /\ ~ HasFourDigits
    /\ callParams = EmptyObject

\* the first position of the prompt where four digits stand in a row
IsFirstYearAt(i) ==
    /\ i \in 1..(Len(callPrompt) - 3)
    /\ \A k \in 0..3 : callPrompt[i + k] \in Digits
    /\ \A q \in 1..(i - 1) : \E k \in 0..3 : callPrompt[q + k] \notin Digits

\* four digits stand at j, and between the year at i and j there is only white
\* space, with at most one "to" or "-" in it
SecondYearFollows(i, j) ==
    /\ j >= i + 4
    /\ j + 3 <= Len(callPrompt)
    /\ \A k \in 0..3 : callPrompt[j + k] \in Digits
    /\ \/ \A m \in (i + 4)..(j - 1) : callPrompt[m] \in WhiteSpace
       \/ \E m \in (i + 4)..(j - 1) :
             /\ callPrompt[m] = "-"
             /\ \A n \in ((i + 4)..(j - 1)) \ {m} : callPrompt[n] \in WhiteSpace
       \/ \E m \in (i + 4)..(j - 2) :
             /\ callPrompt[m] = "t" /\ callPrompt[m + 1] = "o"
             /\ \A n \in ((i + 4)..(j - 1)) \ {m, m + 1} : callPrompt[n] \in WhiteSpace

\* the number a string of digits writes
RECURSIVE DecimalValue(_)
DecimalValue(digits) ==
    IF digits = <<>> THEN 0
    ELSE 10 * DecimalValue(SubSeq(digits, 1, Len(digits) - 1))
         + (CHOOSE d \in 0..9 : DigitChars[d + 1] = digits[Len(digits)])

\* C4: startYear is the first four digits in a row; endYear is the four digits
\* that follow them (after optional white space, "to" or "-") when there are
\* such, and the current calendar year written as a string when there are none.
C4_StartAndEndYear ==
    (Extracted /\ HasFourDigits) =>
        \E i \in 1..Len(callPrompt) :
            /\ IsFirstYearAt(i)
            /\ callParams["startYear"] = SubSeq(callPrompt, i, i + 3)
            /\ \A j \in 1..Len(callPrompt) :
                   SecondYearFollows(i, j) =>
                       callParams["endYear"] = SubSeq(callPrompt, j, j + 3)
            /\ (~ \E j \in 1..Len(callPrompt) : SecondYearFollows(i, j)) =>
                   /\ \A k \in 1..Len(callParams["endYear"]) :
                          callParams["endYear"][k] \in Digits
                   /\ DecimalValue(callParams["endYear"]) = now

\* C4 witness: "1990" + "to" + "2020" gives 1990 and 2020
C4_Witness ==
    /\ Extracted
    /\ callPrompt = <<"1","9","9","0","t","o","2","0","2","0">>
    /\ callParams["startYear"] = <<"1","9","9","0">>
    /\ callParams["endYear"] = <<"2","0","2","0">>

\* C5 as stated: a startYear that is present is a maximal run of exactly four
\* digits of the prompt (no digit stands directly before or after it).
C5_YearIsMaximalDigitRun ==
    (Extracted /\ Has(callParams, "startYear")) =>
        \E i \in 1..(Len(callPrompt) - 3) :
            /\ callParams["startYear"] = SubSeq(callPrompt, i, i + 3)
            /\ i > 1 => callPrompt[i - 1] \notin Digits
            /\ i + 4 <= Len(callPrompt) => callPrompt[i + 4] \notin Digits

-----------------------------------------------------------------------------
(* Properties of generateResponse and generateVisualizationData (SpecRespond) *)

Responded == "generateResponse" \in pc
Visualized == "generateVisualizationData" \in pc

\* the tag is an element of the dataTypes list given to the function
Tagged(tag) ==
    /\ "dataTypes" \in DOMAIN callParams
    /\ tag \in { callParams["dataTypes"][i] : i \in DOMAIN callParams["dataTypes"] }

\* C6: the template is chosen from dataTypes alone, weather tags first, then
\* population tags, else the generic template quoting the prompt; whatever the
\* other fields, the prompt and the location are, and never empty.
C6_TemplateByDataTypes ==
    Responded =>
        /\ retResponse.heading # ""
        /\ IF Tagged("temperature") \/ Tagged("rainfall")
           THEN retResponse.heading = "Weather Analysis for "
           ELSE IF Tagged("population") \/ Tagged("demographics")
           THEN retResponse.heading = "Demographics Analysis for "
           ELSE /\ retResponse.heading = "Geographic Analysis for "
                /\ retResponse.quoted = callPrompt

\* C6 witness: population before temperature in the list, and no years: Weather
C6_Witness ==
    /\ Responded
    /\ callParams = [dataTypes |-> <<"population", "temperature">>]
    /\ retResponse.heading = "Weather Analysis for "

IsChart(viz, type) ==
    /\ "type" \in DOMAIN viz
    /\ viz.type = type
    /\ Len(viz.data.labels) = 12
    /\ Len(viz.data.datasets) = 1
    /\ Len(viz.data.datasets[1].data) = 12

\* C7: a line chart of 12 labels and one series of 12 values when dataTypes
\* contains temperature; else a bar chart of the same shape when it contains
\* rainfall; else null.
C7_ChartByDataTypes ==
    Visualized =>
        IF Tagged("temperature") THEN IsChart(retViz, "line")
        ELSE IF Tagged("rainfall") THEN IsChart(retViz, "bar")
        ELSE retViz = Null

\* C7 witness: rainfall before temperature in the list: the line chart
C7_Witness ==
    /\ Visualized
    /\ "dataTypes" \in DOMAIN callParams
    /\ callParams["dataTypes"] = <<"rainfall", "temperature">>
    /\ retViz.type = "line"

-----------------------------------------------------------------------------
(* Properties of POST /api/queries and of the store (Spec) *)

MatchesBoth(prompt) ==
    /\ OccursIn(prompt, KwTemperature)
    /\ OccursIn(prompt, KwRainfall) \/ OccursIn(prompt, KwPrecipitation)

MatchesPopulation(prompt) ==
    OccursIn(prompt, KwPopulation) \/ OccursIn(prompt, KwDemographics)

WeatherWithLineChart(query) ==
    /\ query.response.heading = "Weather Analysis for "
    /\ query.visualizationData # Null
    /\ query.visualizationData.type = "line"

\* C8 as stated: every stored query whose prompt matches both the temperature
\* and the rainfall keyword pairs the Weather Analysis text with the line chart.
C8_Original ==
    \A id \in DOMAIN queries :
        MatchesBoth(queries[id].prompt) => WeatherWithLineChart(queries[id])

\* C8 as amended: every stored query whose prompt matches both the temperature
\* and the rainfall keyword, and neither population nor demographics, pairs the
\* Weather Analysis text with the temperature (line) chart.
C8_BothWeatherGivesLineChart ==
    \A id \in DOMAIN queries :
        (MatchesBoth(queries[id].prompt) /\ ~ MatchesPopulation(queries[id].prompt))
            => WeatherWithLineChart(queries[id])

\* C8 witness: a query for "temperature Rainfall" is stored with the Weather
\* text and the line chart
C8_Witness ==
    \E id \in DOMAIN queries :
        /\ queries[id].prompt = PromptBoth
        /\ queries[id].extractedParams = [dataTypes |-> <<"temperature", "rainfall">>]
        /\ WeatherWithLineChart(queries[id])

\* C9 as stated: the locationId of every stored Query is the id of a Location
\* of the store (locations are never removed, so one that existed when the
\* Query was created still exists).
C9_QueryLocationExists ==
    \A id \in DOMAIN queries : queries[id].locationId \in DOMAIN locations

\* what a step may do to one of the store's maps: add at most one record, under
\* an id above every id in use, and leave every record in place as it is
GrowsByFreshId(before, after) ==
    /\ DOMAIN before \subseteq DOMAIN after
    /\ \A id \in DOMAIN before : after[id] = before[id]
    /\ Cardinality(DOMAIN after \ DOMAIN before) <= 1
    /\ \A new \in DOMAIN after \ DOMAIN before :
           /\ after[new].id = new
           /\ \A old \in DOMAIN before : new > old

\* the handlers waiting on a create hold records with different ids, each the
\* record the store keeps under that id
CreatedApart ==
    /\ \A handler \in Waiting("await createQuery") :
           /\ handler.query.id \in DOMAIN queries
           /\ queries[handler.query.id] = handler.query
           /\ CopiesIn(handler, handlers) = 1
    /\ \A handler \in Waiting("await createLocation") :
           /\ handler.location.id \in DOMAIN locations
           /\ locations[handler.location.id] = handler.location
           /\ CopiesIn(handler, handlers) = 1
    /\ \A g, h \in Waiting("await createQuery") :
           g # h => g.query.id # h.query.id
    /\ \A g, h \in Waiting("await createLocation") :
           g # h => g.location.id # h.location.id

RecordsKept ==
    /\ \A id \in DOMAIN locations : getLocation(id)' = locations[id]
    /\ \A id \in DOMAIN queries : getQuery(id)' = queries[id]

\* every record a create has returned, to a handler that still holds it or in
\* the last reply, is what the store returns for its id
ReturnedRecordsStored ==
    /\ \A handler \in Waiting("await createLocation") :
           getLocation(handler.location.id) = handler.location
    /\ \A handler \in Waiting("await createQuery") :
           getQuery(handler.query.id) = handler.query
    /\ (lastReply.route = "POST /api/locations" /\ lastReply.status = 200)
           => getLocation(lastReply.body.id) = lastReply.body
    /\ (lastReply.route = "POST /api/queries" /\ lastReply.status = 200)
           => getQuery(lastReply.body.id) = lastReply.body

\* C11: Location and Query records are immutable after creation: no step
\* removes a record or changes a field of one, and getLocation(id) and
\* getQuery(id) keep returning the record the create returned.
C11_RecordsImmutable ==
    [][ RecordsKept /\ ReturnedRecordsStored' ]_vars

\* C11 witness: the first query's record is replied, unchanged, after a second
\* location and a second query have been created
C11_Witness ==
    /\ Cardinality(DOMAIN locations) = 2
    /\ Cardinality(DOMAIN queries) = 2
    /\ lastReply.route = "POST /api/queries"
    /\ lastReply.status = 200
    /\ lastReply.body.id = 1
    /\ getQuery(1) = lastReply.body

\* the records of an array, as a set
Elements(array) == { array[i] : i \in 1..Len(array) }

\* the queries the step creates with the given locationId in their request:
\* the records of the handlers that enter the wait on createQuery in the step
CreatedFor(locationId) ==
    { handler.query : handler \in
        { h \in Waiting("await createQuery")' :
            /\ h \notin Waiting("await createQuery")
            /\ h.request.locationId.num = locationId } }

\* C12: getQueriesByLocation(L) returns exactly the queries created with
\* locationId = L: all its records carry L, every stored query with L is among
\* them, each step adds to it exactly the queries the step creates for L, and
\* what a GET /api/locations/:id/queries has replied stays part of it.
C12_QueriesAccumulate ==
    [][ \A L \in 0..(MaxLocations + 1) :
          LET returned == Elements(getQueriesByLocation(L))
              returnedNext == Elements(getQueriesByLocation(L)')
          IN  /\ returnedNext = returned \cup CreatedFor(L)
              /\ \A query \in returnedNext : query.locationId = L
              /\ \A id \in DOMAIN queries' :
                     queries'[id].locationId = L => queries'[id] \in returnedNext
              /\ Len(getQueriesByLocation(L)') = Cardinality(returnedNext)
              /\ (/\ lastReply'.route = "GET /api/locations/:id/queries"
                  /\ lastReply'.request.id = L)
                     => Elements(lastReply'.body) \subseteq returnedNext ]_vars

\* C12 witness: with one query stored for location 1 and one for location 2, a
\* GET for location 1 is answered with the one query of location 1
C12_Witness ==
    /\ Cardinality(DOMAIN queries) = 2
    /\ Len(getQueriesByLocation(1)) = 1
    /\ Len(getQueriesByLocation(2)) = 1
    /\ lastReply.route = "GET /api/locations/:id/queries"
    /\ lastReply.request.id = 1
    /\ lastReply.body = getQueriesByLocation(1)

\* extractParameters of each prompt string the requests carry, in the year the
\* server runs in
RequestPrompts ==
    { body.prompt.str : body \in { b \in QueryBodies : b.prompt.type = "string" } }

ExtractedFrom == [prompt \in RequestPrompts |-> extractParameters(prompt, StartYear)]

\* the record is the pipeline's result for the request: its prompt and
\* locationId are the request's, its extractedParams is extractParameters of
\* the prompt, and its response and visualizationData are generateResponse and
\* generateVisualizationData of those same parameters (the response with the
\* location's name, or with the fallback name of a location not in the store)
PipelineResult(query, prompt, locationId) ==
    /\ prompt.type = "string" /\ query.prompt = prompt.str
    /\ locationId.type = "number" /\ query.locationId = locationId.num
    /\ now = StartYear /\ query.prompt \in RequestPrompts
    /\ query.extractedParams = ExtractedFrom[query.prompt]
    /\ query.visualizationData =
           generateVisualizationData(query.prompt, query.extractedParams)
    /\ \/ query.response =
              generateResponse(query.prompt, query.extractedParams, Undefined)
       \/ /\ query.locationId \in DOMAIN locations
          /\ query.response =
                 generateResponse(query.prompt, query.extractedParams,
                                  locations[query.locationId])

\* a step that changes the query map is the step of one handler of
\* POST /api/queries, which stores one record, the pipeline's result for its
\* request, and goes on to wait with that record in hand
StoresOnePipelineResult ==
    (queries' # queries) =>
        \E handler \in Waiting("await generateResponse") :
            \E next \in Waiting("await createQuery")' :
                /\ handlers' = (handlers (-) SetToBag({handler})) (+) SetToBag({next})
                /\ DOMAIN queries' = DOMAIN queries \cup {next.query.id}
                /\ next.query.id \notin DOMAIN queries
                /\ queries'[next.query.id] = next.query
                /\ next.request = [prompt |-> handler.prompt,
                                   locationId |-> handler.locationId]
                /\ PipelineResult(next.query, handler.prompt, handler.locationId)

\* a successful answer of POST /api/queries carries the stored record, which is
\* the pipeline's result for the answered request
RepliesStoredResult ==
    (lastReply.route = "POST /api/queries" /\ lastReply.status = 200) =>
        /\ lastReply.body.id \in DOMAIN queries
        /\ lastReply.body = queries[lastReply.body.id]
        /\ PipelineResult(lastReply.body, lastReply.request.prompt,
                          lastReply.request.locationId)

\* C13: each successful POST /api/queries persists exactly one new Query, with
\* the request's prompt and locationId, extractedParams = extractParameters(prompt)
\* and the response and visualizationData computed from those same parameters,
\* and the record answered to the client is the stored one.
C13_PersistsPipelineResult ==
    [][ /\ StoresOnePipelineResult
        /\ (lastReply' # lastReply \/ queries' # queries \/ locations' # locations)
               => RepliesStoredResult' ]_vars

\* C13 witness: a POST /api/queries for "temperature Rainfall" at location 1 is
\* answered with its stored record, the Weather text and the line chart
C13_Witness ==
    /\ lastReply.route = "POST /api/queries"
    /\ lastReply.status = 200
    /\ lastReply.request.prompt = JsString(PromptBoth)
    /\ lastReply.body = queries[lastReply.body.id]
    /\ lastReply.body.visualizationData = TemperatureChart
    /\ lastReply.body.response.heading = "Weather Analysis for "
    /\ lastReply.body.response.locationName = "San Francisco"

-----------------------------------------------------------------------------
(* Properties of generateResponse over the store (SpecRespond) *)

\* C14 as stated: the location name generateResponse interpolates is the name
\* of the stored Location with the given id whenever there is one, and the
\* literal "the selected location" when there is none.
C14_NameOfStoredLocation ==
    Responded =>
        retResponse.locationName =
            IF callLocationId \in DOMAIN locations
            THEN locations[callLocationId].name
            ELSE "the selected location"

-----------------------------------------------------------------------------
(* Properties of the answers of POST /api/queries (Spec) *)

\* C15 as stated: a request whose prompt is not a string is answered with an
\* input-validation error (400) without any call of the pipeline functions.
C15_NonStringPromptRejected ==
    (/\ lastReply.route = "POST /api/queries"
     /\ lastReply.request.prompt.type # "string")
        => /\ lastReply.status = 400
           /\ lastReply.called = <<>>

\* C16 as stated: a second call of generateResponse or generateVisualizationData
\* on the same input returns what the first call returned, whatever store
\* writes happen between the two calls, and the calls leave the store as it is.
C16_SameInputSameOutput ==
    [][ /\ (retResponse # NotCalled) => (retResponse' = retResponse)
        /\ (retViz # NotCalled) => (retViz' = retViz)
        /\ (retResponse' # retResponse \/ retViz' # retViz)
               => UNCHANGED storeVars ]_vars

-----------------------------------------------------------------------------
(* Properties of the hints of extractParameters (SpecExtract) *)

OccursYearly == Occurs(KwYearly) \/ Occurs(KwAnnual)

TimeframeIs(value) == Has(callParams, "timeframe") /\ callParams["timeframe"] = value

\* the place of the first occurrence of the keyword in the prompt
FirstAt(kw) ==
    CHOOSE i \in 1..Len(callPrompt) :
        /\ OccursIn(SubSeq(callPrompt, i, i + Len(kw) - 1), kw)
        /\ \A j \in 1..(i - 1) : ~ OccursIn(SubSeq(callPrompt, j, j + Len(kw) - 1), kw)

\* C17: a prompt with "monthly" and with "yearly" or "annual" gets timeframe
\* "yearly", whichever word comes first; a prompt with only "monthly" gets
\* "monthly"; aggregation is "average" exactly when "average" occurs, whatever
\* the timeframe and the dataTypes are.
C17_YearlyWinsOverMonthly ==
    Extracted =>
        /\ (Occurs(KwMonthly) /\ OccursYearly) => TimeframeIs("yearly")
        /\ (Occurs(KwMonthly) /\ ~ OccursYearly) => TimeframeIs("monthly")
        /\ (~ Occurs(KwMonthly) /\ OccursYearly) => TimeframeIs("yearly")
        /\ (~ Occurs(KwMonthly) /\ ~ OccursYearly) => ~ Has(callParams, "timeframe")
        /\ Occurs(KwAverage) =>
               (Has(callParams, "aggregation") /\ callParams["aggregation"] = "average")
        /\ ~ Occurs(KwAverage) => ~ Has(callParams, "aggregation")

\* C17 witness: "yearly" comes before "monthly" in a prompt that also asks for
\* the average, and the timeframe is "yearly"
C17_Witness ==
    /\ Extracted
    /\ Occurs(KwMonthly) /\ Occurs(KwYearly) /\ Occurs(KwAverage)
    /\ FirstAt(KwYearly) < FirstAt(KwMonthly)
    /\ TimeframeIs("yearly")
    /\ callParams["aggregation"] = "average"

\* C18: in the Weather Analysis response built from what extractParameters
\* returns, the year clause is " from {startYear} to {endYear}" when the
\* parameters carry years and is empty when they carry none; the parameters
\* carry both years or neither, so the clause is never half present.
C18_YearClauseWholeOrAbsent ==
    (/\ Extracted /\ Responded
     /\ retResponse.heading = "Weather Analysis for ")
        => /\ Has(callParams, "startYear") <=> Has(callParams, "endYear")
           /\ IF Has(callParams, "startYear")
              THEN retResponse.period =
                       <<" ", "f", "r", "o", "m", " ">> \o callParams["startYear"]
                       \o <<" ", "t", "o", " ">> \o callParams["endYear"]
              ELSE retResponse.period = <<>>

\* C18 witness: the rainfall prompt "Rainfall19902020" for San Francisco gives
\* the Weather Analysis with " from 1990 to 2020"
C18_Witness ==
    /\ Extracted /\ Responded
    /\ callPrompt = <<"R","a","i","n","f","a","l","l","1","9","9","0","2","0","2","0">>
    /\ callParams["dataTypes"] = <<"rainfall">>
    /\ retResponse.heading = "Weather Analysis for "
    /\ retResponse.locationName = "San Francisco"
    /\ retResponse.period =
           <<" ","f","r","o","m"," ","1","9","9","0"," ","t","o"," ","2","0","2","0">>

\* the step stores a query: a handler of POST /api/queries enters the wait on
\* createQuery with the record the store has set under the next id
StoresQuery ==
    /\ currentQueryId' = currentQueryId + 1
    /\ DOMAIN queries' = DOMAIN queries \cup {currentQueryId}
    /\ \E next \in Waiting("await createQuery")' :
           /\ next \notin Waiting("await createQuery")
           /\ next.query.id = currentQueryId

\* the step answers with an error
AnswersError ==
    /\ lastReply' # lastReply
    /\ lastReply'.status \in {400, 500}

\* C19: a step in which POST /api/queries answers 400 or 500 leaves the store
\* as it is; the query map and the query id counter change only in the step of
\* a request that succeeds, by one record under the next id, so the ids of the
\* stored queries are 1..n with no gaps, one for each successful request.
C19_ErrorsLeaveStoreUnchanged ==
    [][ /\ AnswersError => UNCHANGED storeVars
        /\ (queries' # queries \/ currentQueryId' # currentQueryId)
               => (StoresQuery /\ ~ AnswersError)
        /\ DOMAIN queries' = 1..(currentQueryId' - 1) ]_vars

\* C19 witness: after a first request that succeeded, a request failed with
\* 500 at the parse, and a further request has stored the query with id 2
C19_Witness ==
    /\ lastReply.route = "POST /api/queries"
    /\ lastReply.status = 500
    /\ lastReply.called = PipelineCalls
    /\ DOMAIN queries = {1, 2}
    /\ currentQueryId = 3

\* the field of the request body is missing, the empty string or 0
MissingOrFalsy(value) ==
    CASE value.type = "undefined" -> TRUE
      [] value.type = "string" -> Len(value.str) = 0
      [] value.type = "number" -> value.num = 0

\* C20: POST /api/queries answers 400 "Prompt and locationId are required"
\* exactly when the prompt or the locationId of the request is missing or
\* falsy, and then without a call of the pipeline (so without a store lookup);
\* a request with a non-empty string prompt and a positive integer locationId
\* is answered with its stored Query, whether or not the location exists.
C20_RequiredFieldsOrStored ==
    (lastReply.route = "POST /api/queries") =>
        LET prompt == lastReply.request.prompt
            locationId == lastReply.request.locationId
        IN  /\ (lastReply.status = 400)
                   <=> (MissingOrFalsy(prompt) \/ MissingOrFalsy(locationId))
            /\ (lastReply.status = 400) =>
                   /\ lastReply.body = [error |-> "Prompt and locationId are required"]
                   /\ lastReply.called = <<>>
            /\ (/\ prompt.type = "string" /\ Len(prompt.str) > 0
                /\ locationId.type = "number" /\ locationId.num > 0)
                   => /\ lastReply.status = 200
                      /\ lastReply.body.id \in DOMAIN queries
                      /\ queries[lastReply.body.id] = lastReply.body

\* C20 witness: a request with locationId 0 is answered 400 by a server that
\* has stored the query of a request for a location that does not exist
C20_Witness ==
    /\ lastReply.route = "POST /api/queries"
    /\ lastReply.status = 400
    /\ lastReply.request.locationId = JsNumber(0)
    /\ lastReply.request.prompt.str # <<>>
    /\ \E id \in DOMAIN queries : queries[id].locationId \notin DOMAIN locations

\* the tags of the record's extractedParams.dataTypes, none if it is absent
TagsOf(query) ==
    IF "dataTypes" \in DOMAIN query.extractedParams
    THEN { query.extractedParams["dataTypes"][i] :
             i \in 1..Len(query.extractedParams["dataTypes"]) }
    ELSE {}

\* C21: in every Query stored through POST /api/queries, dataTypes does not mix
\* a weather tag (temperature, rainfall) with a population tag (population,
\* demographics); visualizationData is non-null only with the Weather Analysis
\* response, and a Demographics or Geographic (generic) response comes with
\* visualizationData = null.
C21_ChartOnlyWithWeather ==
    \A id \in DOMAIN queries :
        LET query == queries[id]
        IN  /\ ~ (/\ TagsOf(query) \cap {"temperature", "rainfall"} # {}
                  /\ TagsOf(query) \cap {"population", "demographics"} # {})
            /\ (query.visualizationData # Null)
                   => (query.response.heading = "Weather Analysis for ")
            /\ (query.response.heading \in {"Demographics Analysis for ",
                                            "Geographic Analysis for "})
                   => (query.visualizationData = Null)

\* C21 witness: the stored query of a prompt with temperature, rainfall and
\* population carries the Demographics text and no chart, next to a stored
\* query with the Weather text and a chart
C21_Witness ==
    /\ \E id \in DOMAIN queries :
           /\ queries[id].prompt = PromptBothAndPopulation
           /\ TagsOf(queries[id]) = {"population"}
           /\ queries[id].response.heading = "Demographics Analysis for "
           /\ queries[id].visualizationData = Null
    /\ \E id \in DOMAIN queries :
           /\ queries[id].response.heading = "Weather Analysis for "
           /\ queries[id].visualizationData # Null

-----------------------------------------------------------------------------
(* Properties of the Home page (SpecHome) *)

\* the step is one of the page-load auto-detection: its position moves
DetectionStep == detection' # detection

\* C22 as stated: once a location has been chosen through the selector (the
\* only way selectedLocation is set while the page-load detection is still
\* under way), a step of the page-load detection that completes late neither
\* replaces the chosen location nor changes the screen shown.
C22_LateDetectionChangesNothing ==
    [][ (DetectionStep /\ selectedLocation # Null)
            => /\ selectedLocation' = selectedLocation
               /\ showLocationSelector' = showLocationSelector
               /\ Shown' = Shown ]_vars

\* the one screen the page is to show
ScreenDue ==
    IF isAutoDetecting THEN "detecting"
    ELSE IF showLocationSelector THEN "selector"
    ELSE "chat"

OneScreenShown ==
    /\ Shown = {ScreenDue}
    /\ ~ isAutoDetecting => (showLocationSelector \/ selectedLocation # Null)
    /\ ("chat" \in Shown) => (selectedLocation # Null)

\* C23: in every reachable state of the Home page exactly one screen is shown,
\* the detecting screen while isAutoDetecting, else the selector if
\* showLocationSelector, else the chat; the page is never blank, the chat is
\* shown only with a selected location, and selectedLocation, once set, never
\* returns to null.
C23_ExactlyOneScreen ==
    [][ /\ OneScreenShown
        /\ OneScreenShown'
        /\ (selectedLocation # Null) => (selectedLocation' # Null) ]_vars

\* C23 witness: the page-load detection has succeeded late, with the selector
\* open after Skip and a selection made before: the selector is the one screen
\* shown, over a selected location
C23_Witness ==
    /\ detection = "settled"
    /\ Shown = {"selector"}
    /\ selectedLocation # Null
    /\ selectedLocation.type = "auto"
    /\ Cardinality(DOMAIN locations) = 2

-----------------------------------------------------------------------------
(* Properties of the chat (SpecChat) *)

\* the response the server gives the prompt for the chat's location
AnswerTo(prompt) ==
    generateResponse(prompt, extractParameters(prompt, now),
                     getLocation(selectedLocation.id))

\* the assistant's message at position i directly follows the user's message
\* it answers
FollowsItsPrompt(i) ==
    /\ i > 1
    /\ messages[i - 1].sender = "user"
    /\ messages[i].content = AnswerTo(messages[i - 1].content)

\* C24: in the chat at most one query is in flight at a time, isTyping is
\* true exactly while a sent query has been neither answered nor failed, and
\* every assistant message is appended directly after the user message it
\* answers (no prompt is sent, by the button or by Enter, while one is pending).
C24_OneQueryInFlight ==
    /\ Cardinality(DOMAIN pending) <= 1
    /\ isTyping <=> (DOMAIN pending # {})
    /\ \A i \in 1..Len(messages) :
           messages[i].sender = "assistant" => FollowsItsPrompt(i)

====
